---------------------------- MODULE Spec2Model ----------------------------
(***************************************************************************)
(* A model of questionary's Question wrapper (question.py) and of the      *)
(* process-wide async-mode flag it uses (utils.py).                        *)
(*                                                                         *)
(* A Question wraps a prompt_toolkit Application.  The application is a    *)
(* stub here: each run ends with a result, a KeyboardInterrupt, an         *)
(* asyncio.CancelledError (asynchronous runs only) or some other error,    *)
(* and run_calls counts how often run() / run_async() was invoked.         *)
(***************************************************************************)
EXTENDS Integers, Sequences, FiniteSets, TLC

(* ------------------------------ bounds -------------------------------- *)

\* Calls are started on a Question only while its application has been run
\* fewer than MaxRuns times.
MaxRuns == 2

\* activate_prompt_toolkit_async_mode() is called by itself only while it has
\* been called fewer than MaxActivations times.
MaxActivations == 2

\* A signature has at most MaxParams parameters.
MaxParams == 3

(* ------------------------------ values -------------------------------- *)

None == "None"
NL == "\n"

\* questionary.constants.DEFAULT_KBI_MESSAGE, the default of kbi_msg.
DEFAULT_KBI_MESSAGE == "Cancelled by user"

Questions == {"q1"}

\* Values given to skip_if as the default.
Defaults == {None, "X", "Y"}

\* Values the wrapped application can return.
Results == {None, "A"}

\* Values passed as kbi_msg.
KbiMsgs == {None, "", DEFAULT_KBI_MESSAGE}

\* Python values passed as exit_on_kbi, with their type.
PyBool(b) == [type |-> "bool", b |-> b, i |-> 0]
PyInt(i) == [type |-> "int", b |-> FALSE, i |-> i]
PyNone == [type |-> "NoneType", b |-> FALSE, i |-> 0]
ExitOnKbiArgs == {PyBool(FALSE), PyBool(TRUE), PyInt(0), PyInt(7), PyNone}

\* isinstance(v, cls) for cls in {bool, int}: bool is a subclass of int.
IsInstance(v, cls) ==
    CASE cls = "bool" -> v.type = "bool"
      [] cls = "int" -> v.type \in {"bool", "int"}

\* Truthiness of a str | None value.
Truthy(s) == s # None /\ s # ""

\* The ways a run of the application ends.
ProgramResult(v) == [kind |-> "result", value |-> v]
ProgramRaises(exc) == [kind |-> exc, value |-> None]
NoProgram == [kind |-> "none", value |-> None]
SyncEnds ==
    {ProgramResult(v) : v \in Results}
        \cup {ProgramRaises("KeyboardInterrupt"), ProgramRaises("Error")}
AsyncEnds == SyncEnds \cup {ProgramRaises("CancelledError")}

\* The ways a call ends for its caller.
Pending == [kind |-> "pending", value |-> None, status |-> 0]
Return(v) == [kind |-> "return", value |-> v, status |-> 0]
Raise(exc) == [kind |-> "raise", value |-> exc, status |-> 0]
Exit(n) == [kind |-> "exit", value |-> None, status |-> n]

SafeMethods == {"ask", "ask_async"}

(* ------------------------------- state -------------------------------- *)

VARIABLES
    should_skip_question,   \* Question.should_skip_question, per Question
    default,                \* Question.default, per Question
    run_calls,              \* invocations of application.run / run_async
    was_skipped,            \* history: should_skip_question has been true
    frame,                  \* the call in progress (or last ended) per Question
    patched,                \* patch_stdout() context is entered, per Question
    stdout,                 \* what has been written to sys.stdout
    ACTIVATED_ASYNC_MODE,   \* utils.ACTIVATED_ASYNC_MODE
    ptk3,                   \* utils.is_prompt_toolkit_3()
    use_asyncio_calls,      \* calls of pt.eventloop.use_asyncio_event_loop()
    skip_if_call,           \* the last skip_if call: receiver, arguments, result
    application,            \* Question.application, per Question
    activate_calls,         \* calls of activate_prompt_toolkit_async_mode()
    utils_call              \* the last call of an introspection helper of utils

vars == <<should_skip_question, default, run_calls, was_skipped, frame,
          patched, stdout, ACTIVATED_ASYNC_MODE, ptk3, use_asyncio_calls,
          skip_if_call, application, activate_calls, utils_call>>

\* No helper of utils has been called.
NoUtilsCall == [fn |-> "none"]

NoSkipIfCall ==
    [self |-> None, condition |-> FALSE, default |-> None, returned |-> None]

IdleFrame ==
    [pc |-> "idle", method |-> "ask", patch_stdout |-> FALSE,
     kbi_msg |-> DEFAULT_KBI_MESSAGE, raise_on_kbi |-> FALSE,
     exit_on_kbi |-> PyBool(FALSE), skipped |-> FALSE,
     runs0 |-> 0, stdout0 |-> 0, program |-> NoProgram, outcome |-> Pending]

\* Question.__init__, and the module-level state of utils.
Init ==
    /\ should_skip_question = [q \in Questions |-> FALSE]
    /\ default = [q \in Questions |-> None]
    /\ run_calls = [q \in Questions |-> 0]
    /\ was_skipped = [q \in Questions |-> FALSE]
    /\ frame = [q \in Questions |-> IdleFrame]
    /\ patched = [q \in Questions |-> FALSE]
    /\ stdout = <<>>
    /\ ACTIVATED_ASYNC_MODE = FALSE
    /\ ptk3 \in BOOLEAN
    /\ use_asyncio_calls = 0
    /\ skip_if_call = NoSkipIfCall
    /\ application = [q \in Questions |-> q]
    /\ activate_calls = 0
    /\ utils_call = NoUtilsCall

(* --------------------------- pure functions --------------------------- *)

\* print(s): s followed by the end-of-line print adds.
PyPrint(s) == s \o <<NL>>

\* Mutant of KbiText: the message is printed without the newlines around it.
KbiText_Bare(kbi_msg) == <<kbi_msg>>

\* The f-string "\n{kbi_msg}\n".
KbiText(kbi_msg) == <<NL, kbi_msg, NL>>

\* Mutant of KbiOutput: the message is printed without the test `if kbi_msg`.
KbiOutput_Untested(kbi_msg) == PyPrint(KbiText(kbi_msg))

\* What handle_kbi writes before it returns None.
KbiOutput(kbi_msg) == IF Truthy(kbi_msg) THEN PyPrint(KbiText(kbi_msg)) ELSE <<>>

\* Mutant of handle_kbi: raise_on_kbi is tested before exit_on_kbi.
handle_kbi_RaiseFirst(kbi_msg, raise_on_kbi, exit_on_kbi) ==
    IF raise_on_kbi
    THEN [outcome |-> Raise("KeyboardInterrupt"), printed |-> <<>>]
    ELSE IF IsInstance(exit_on_kbi, "bool") /\ exit_on_kbi.b
    THEN [outcome |-> Exit(0), printed |-> <<>>]
    ELSE IF ~IsInstance(exit_on_kbi, "bool") /\ IsInstance(exit_on_kbi, "int")
    THEN [outcome |-> Exit(exit_on_kbi.i), printed |-> <<>>]
    ELSE [outcome |-> Return(None), printed |-> KbiOutput(kbi_msg)]

\* Mutant of handle_kbi: the branch of raise_on_kbi is missing.
handle_kbi_NoRaise(kbi_msg, raise_on_kbi, exit_on_kbi) ==
    IF IsInstance(exit_on_kbi, "bool") /\ exit_on_kbi.b
    THEN [outcome |-> Exit(0), printed |-> <<>>]
    ELSE IF ~IsInstance(exit_on_kbi, "bool") /\ IsInstance(exit_on_kbi, "int")
    THEN [outcome |-> Exit(exit_on_kbi.i), printed |-> <<>>]
    ELSE [outcome |-> Return(None), printed |-> KbiOutput(kbi_msg)]

\* handle_kbi: the outcome for the caller and the text written.
handle_kbi(kbi_msg, raise_on_kbi, exit_on_kbi) ==
    IF IsInstance(exit_on_kbi, "bool") /\ exit_on_kbi.b
    THEN [outcome |-> Exit(0), printed |-> <<>>]
    ELSE IF ~IsInstance(exit_on_kbi, "bool") /\ IsInstance(exit_on_kbi, "int")
    THEN [outcome |-> Exit(exit_on_kbi.i), printed |-> <<>>]
    ELSE IF raise_on_kbi
    THEN [outcome |-> Raise("KeyboardInterrupt"), printed |-> <<>>]
    ELSE [outcome |-> Return(None), printed |-> KbiOutput(kbi_msg)]

\* Mutant of Catches: the safe entry points also catch CancelledError.
Catches_Cancelled(method, exc) ==
    method \in SafeMethods /\ exc \in {"KeyboardInterrupt", "CancelledError"}

\* Mutant of Catches: the safe entry points catch every exception.
Catches_All(method, exc) == method \in SafeMethods

\* Mutant of Catches: unsafe_ask and unsafe_ask_async catch the interrupt too.
Catches_EveryMethod(method, exc) == exc = "KeyboardInterrupt"

\* The except clauses of ask and ask_async: only KeyboardInterrupt is caught,
\* and only by the safe entry points.
Catches(method, exc) == method \in SafeMethods /\ exc = "KeyboardInterrupt"

\* Mutant of Finish: the branch under patch_stdout() runs the application
\* without returning its result.
Finish_PatchedDropsResult(f, program) ==
    IF program.kind = "result"
    THEN [outcome |-> Return(IF f.patch_stdout THEN None ELSE program.value),
          printed |-> <<>>]
    ELSE IF Catches(f.method, program.kind)
    THEN handle_kbi(f.kbi_msg, f.raise_on_kbi, f.exit_on_kbi)
    ELSE [outcome |-> Raise(program.kind), printed |-> <<>>]

\* How a call whose application run ended with `program` ends.
Finish(f, program) ==
    IF program.kind = "result"
    THEN [outcome |-> Return(program.value), printed |-> <<>>]
    ELSE IF Catches(f.method, program.kind)
    THEN handle_kbi(f.kbi_msg, f.raise_on_kbi, f.exit_on_kbi)
    ELSE [outcome |-> Raise(program.kind), printed |-> <<>>]

\* The process has ended through exit().
Exited == \E q \in DOMAIN frame : frame[q].outcome.kind = "exit"

\* A new call can be started on q by its (single) caller.
CanCall(q) ==
    /\ ~Exited
    /\ frame[q].pc \in {"idle", "done"}
    /\ run_calls[q] < MaxRuns

NewFrame(q, method, patch_stdout, kbi_msg, raise_on_kbi, exit_on_kbi) ==
    [pc |-> "idle", method |-> method, patch_stdout |-> patch_stdout,
     kbi_msg |-> kbi_msg, raise_on_kbi |-> raise_on_kbi,
     exit_on_kbi |-> exit_on_kbi, skipped |-> should_skip_question[q],
     runs0 |-> run_calls[q], stdout0 |-> Len(stdout),
     program |-> NoProgram, outcome |-> Pending]

(* ------------------------------ actions ------------------------------- *)

\* Mutant of skip_if: a skip flag once set is kept.
skip_if_Sticky(q, condition, d) ==
    [should_skip_question |-> should_skip_question[q] \/ condition,
     default |-> d, returned |-> q]

\* Question.skip_if(condition, default) on q: the new should_skip_question
\* and default of q, and the value returned (self).
skip_if(q, condition, d) ==
    [should_skip_question |-> condition, default |-> d, returned |-> q]

SkipIf(q, condition, d) ==
    LET r == skip_if(q, condition, d)
    IN  /\ ~Exited
        /\ frame[q].pc \in {"idle", "done"}
        /\ should_skip_question' =
                [should_skip_question EXCEPT ![q] = r.should_skip_question]
        /\ default' = [default EXCEPT ![q] = r.default]
        /\ was_skipped' = [was_skipped EXCEPT ![q] = @ \/ r.should_skip_question]
        /\ skip_if_call' = [self |-> q, condition |-> condition, default |-> d,
                            returned |-> r.returned]
        /\ UNCHANGED <<run_calls, frame, patched, stdout, ACTIVATED_ASYNC_MODE,
                       ptk3, use_asyncio_calls,
                   application, activate_calls, utils_call>>

\* Mutant of TakesSkipPath: the question is skipped only if a default is set.
TakesSkipPath_NeedsDefault(q) == should_skip_question[q] /\ default[q] # None

\* The test of unsafe_ask and unsafe_ask_async that takes the skip path.
TakesSkipPath(q) == should_skip_question[q]

\* Mutant of SkipValue: the skip path returns None.
SkipValue_None(q) == None

\* What the skip path returns: self.default.
SkipValue(q) == default[q]

\* Mutant of SyncEnter: the skip path clears the skip flag of the Question.
SyncEnter_ConsumesSkip(q, f) ==
    /\ IF TakesSkipPath(q)
       THEN /\ frame' = [frame EXCEPT ![q] =
                    [f EXCEPT !.pc = "done", !.outcome = Return(SkipValue(q))]]
            /\ should_skip_question' =
                    [should_skip_question EXCEPT ![q] = FALSE]
            /\ UNCHANGED <<patched, run_calls>>
       ELSE /\ frame' = [frame EXCEPT ![q] = [f EXCEPT !.pc = "running"]]
            /\ patched' = [patched EXCEPT ![q] = f.patch_stdout]
            /\ run_calls' = [run_calls EXCEPT ![q] = @ + 1]
            /\ UNCHANGED should_skip_question
    /\ UNCHANGED <<default, was_skipped, stdout,
                   ACTIVATED_ASYNC_MODE, ptk3, use_asyncio_calls, skip_if_call,
                   application, activate_calls, utils_call>>

\* Question.unsafe_ask up to the point where application.run() blocks; the
\* skip path returns at once.
SyncEnter(q, f) ==
    /\ IF TakesSkipPath(q)
       THEN /\ frame' = [frame EXCEPT ![q] =
                    [f EXCEPT !.pc = "done", !.outcome = Return(SkipValue(q))]]
            /\ UNCHANGED <<patched, run_calls>>
       ELSE /\ frame' = [frame EXCEPT ![q] = [f EXCEPT !.pc = "running"]]
            /\ patched' = [patched EXCEPT ![q] = f.patch_stdout]
            /\ run_calls' = [run_calls EXCEPT ![q] = @ + 1]
    /\ UNCHANGED <<should_skip_question, default, was_skipped, stdout,
                   ACTIVATED_ASYNC_MODE, ptk3, use_asyncio_calls, skip_if_call,
                   application, activate_calls, utils_call>>

\* Question.ask(patch_stdout, kbi_msg, raise_on_kbi, exit_on_kbi) is called.
Ask(q, patch_stdout, kbi_msg, raise_on_kbi, exit_on_kbi) ==
    /\ CanCall(q)
    /\ SyncEnter(q, NewFrame(q, "ask", patch_stdout, kbi_msg, raise_on_kbi,
                             exit_on_kbi))

\* Question.unsafe_ask(patch_stdout) is called.
UnsafeAsk(q, patch_stdout) ==
    /\ CanCall(q)
    /\ SyncEnter(q, NewFrame(q, "unsafe_ask", patch_stdout,
                             DEFAULT_KBI_MESSAGE, FALSE, PyBool(FALSE)))

\* The end of a call: its outcome reaches the caller, after handle_kbi has
\* written what it writes.
Complete(q, program) ==
    LET r == Finish(frame[q], program)
    IN  /\ frame' = [frame EXCEPT ![q] =
                [@ EXCEPT !.pc = "done", !.program = program,
                          !.outcome = r.outcome]]
        /\ stdout' = stdout \o r.printed

\* Mutant of ApplicationRunEnds: patch_stdout() is left only when
\* application.run() returns, not when it raises.
ApplicationRunEnds_LeaksOnError(q, program) ==
    /\ ~Exited
    /\ frame[q].pc = "running"
    /\ patched' = [patched EXCEPT ![q] = @ /\ program.kind # "result"]
    /\ Complete(q, program)
    /\ UNCHANGED <<should_skip_question, default, run_calls, was_skipped,
                   ACTIVATED_ASYNC_MODE, ptk3, use_asyncio_calls, skip_if_call,
                   application, activate_calls, utils_call>>

\* application.run() ends: the patch_stdout() context is left, and the
\* result or exception goes up through unsafe_ask (and ask).
ApplicationRunEnds(q, program) ==
    /\ ~Exited
    /\ frame[q].pc = "running"
    /\ patched' = [patched EXCEPT ![q] = FALSE]
    /\ Complete(q, program)
    /\ UNCHANGED <<should_skip_question, default, run_calls, was_skipped,
                   ACTIVATED_ASYNC_MODE, ptk3, use_asyncio_calls, skip_if_call,
                   application, activate_calls, utils_call>>

\* Question.unsafe_ask_async up to the test of utils.ACTIVATED_ASYNC_MODE;
\* the skip path returns at once.
AsyncEnter(q, f) ==
    /\ IF TakesSkipPath(q)
       THEN frame' = [frame EXCEPT ![q] =
                [f EXCEPT !.pc = "done", !.outcome = Return(SkipValue(q))]]
       ELSE frame' = [frame EXCEPT ![q] =
                [f EXCEPT !.pc = IF ~ACTIVATED_ASYNC_MODE THEN "activate"
                                 ELSE "run_async"]]
    /\ UNCHANGED <<should_skip_question, default, run_calls, was_skipped,
                   patched, stdout, ACTIVATED_ASYNC_MODE, ptk3,
                   use_asyncio_calls, skip_if_call,
                   application, activate_calls, utils_call>>

\* Question.ask_async(patch_stdout, kbi_msg, raise_on_kbi, exit_on_kbi).
AskAsync(q, patch_stdout, kbi_msg, raise_on_kbi, exit_on_kbi) ==
    /\ CanCall(q)
    /\ AsyncEnter(q, NewFrame(q, "ask_async", patch_stdout, kbi_msg,
                              raise_on_kbi, exit_on_kbi))

\* Question.unsafe_ask_async(patch_stdout).
UnsafeAskAsync(q, patch_stdout) ==
    /\ CanCall(q)
    /\ AsyncEnter(q, NewFrame(q, "unsafe_ask_async", patch_stdout,
                              DEFAULT_KBI_MESSAGE, FALSE, PyBool(FALSE)))

\* Mutant of activate_prompt_toolkit_async_mode: the flag is set inside the
\* branch `if not is_prompt_toolkit_3()`.
activate_FlagInsideIf ==
    /\ use_asyncio_calls' = IF ~ptk3 THEN use_asyncio_calls + 1
                            ELSE use_asyncio_calls
    /\ ACTIVATED_ASYNC_MODE' = (ACTIVATED_ASYNC_MODE \/ ~ptk3)
    /\ activate_calls' = activate_calls + 1

\* Mutant of activate_prompt_toolkit_async_mode: the test of the version is
\* missing.
activate_NoVersionTest ==
    /\ use_asyncio_calls' = use_asyncio_calls + 1
    /\ ACTIVATED_ASYNC_MODE' = TRUE
    /\ activate_calls' = activate_calls + 1

\* Mutant of activate_prompt_toolkit_async_mode: the flag is toggled.
activate_Toggles ==
    /\ use_asyncio_calls' = IF ~ptk3 THEN use_asyncio_calls + 1
                            ELSE use_asyncio_calls
    /\ ACTIVATED_ASYNC_MODE' = ~ACTIVATED_ASYNC_MODE
    /\ activate_calls' = activate_calls + 1

\* utils.activate_prompt_toolkit_async_mode(): what the function does.
activate_prompt_toolkit_async_mode ==
    /\ use_asyncio_calls' = IF ~ptk3 THEN use_asyncio_calls + 1
                            ELSE use_asyncio_calls
    /\ ACTIVATED_ASYNC_MODE' = TRUE
    /\ activate_calls' = activate_calls + 1

\* await utils.activate_prompt_toolkit_async_mode() in unsafe_ask_async.
AwaitActivate(q) ==
    /\ ~Exited
    /\ frame[q].pc = "activate"
    /\ activate_prompt_toolkit_async_mode
    /\ frame' = [frame EXCEPT ![q].pc = "run_async"]
    /\ UNCHANGED <<should_skip_question, default, run_calls, was_skipped,
                   patched, stdout, ptk3, skip_if_call, application,
                   utils_call>>

\* utils.activate_prompt_toolkit_async_mode() is called by itself, outside of
\* a Question.
CallActivate ==
    /\ ~Exited
    /\ activate_calls < MaxActivations
    /\ activate_prompt_toolkit_async_mode
    /\ utils_call' = [fn |-> "activate_prompt_toolkit_async_mode"]
    /\ UNCHANGED <<should_skip_question, default, run_calls, was_skipped,
                   frame, patched, stdout, ptk3, skip_if_call, application>>

\* r = self.application.run_async(), inside patch_stdout() when asked for.
RunAsync(q) ==
    /\ ~Exited
    /\ frame[q].pc = "run_async"
    /\ run_calls' = [run_calls EXCEPT ![q] = @ + 1]
    /\ patched' = [patched EXCEPT ![q] = frame[q].patch_stdout]
    /\ frame' = [frame EXCEPT ![q].pc =
            IF frame[q].patch_stdout THEN "exit_patch" ELSE "awaiting"]
    /\ UNCHANGED <<should_skip_question, default, was_skipped, stdout,
                   ACTIVATED_ASYNC_MODE, ptk3, use_asyncio_calls, skip_if_call,
                   application, activate_calls, utils_call>>

\* The with patch_stdout() block of unsafe_ask_async is left.
ExitPatch(q) ==
    /\ ~Exited
    /\ frame[q].pc = "exit_patch"
    /\ patched' = [patched EXCEPT ![q] = FALSE]
    /\ frame' = [frame EXCEPT ![q].pc = "awaiting"]
    /\ UNCHANGED <<should_skip_question, default, run_calls, was_skipped,
                   stdout, ACTIVATED_ASYNC_MODE, ptk3, use_asyncio_calls,
                   skip_if_call,
                   application, activate_calls, utils_call>>

\* Mutant of AwaitEnds: ask_async has no handler of KeyboardInterrupt, so
\* what the await raises reaches the caller.
AwaitEnds_Unhandled(q, program) ==
    /\ ~Exited
    /\ frame[q].pc = "awaiting"
    /\ frame' = [frame EXCEPT ![q] =
            [@ EXCEPT !.pc = "done", !.program = program,
                      !.outcome = IF program.kind = "result"
                                  THEN Return(program.value)
                                  ELSE Raise(program.kind)]]
    /\ UNCHANGED <<should_skip_question, default, run_calls, was_skipped,
                   patched, stdout, ACTIVATED_ASYNC_MODE, ptk3,
                   use_asyncio_calls, skip_if_call,
                   application, activate_calls, utils_call>>

\* await r ends: with the application's result, with an exception of the
\* application, or with the CancelledError of a cancelled task.
AwaitEnds(q, program) ==
    /\ ~Exited
    /\ frame[q].pc = "awaiting"
    /\ Complete(q, program)
    /\ UNCHANGED <<should_skip_question, default, run_calls, was_skipped,
                   patched, ACTIVATED_ASYNC_MODE, ptk3, use_asyncio_calls,
                   skip_if_call,
                   application, activate_calls, utils_call>>

Next ==
    \E q \in Questions :
        \/ \E c \in BOOLEAN, d \in Defaults : SkipIf(q, c, d)
        \/ \E p \in BOOLEAN, m \in KbiMsgs, r \in BOOLEAN, e \in ExitOnKbiArgs :
                Ask(q, p, m, r, e)
        \/ \E p \in BOOLEAN : UnsafeAsk(q, p)
        \/ \E program \in SyncEnds : ApplicationRunEnds(q, program)
        \/ \E p \in BOOLEAN, m \in KbiMsgs, r \in BOOLEAN, e \in ExitOnKbiArgs :
                AskAsync(q, p, m, r, e)
        \/ \E p \in BOOLEAN : UnsafeAskAsync(q, p)
        \/ AwaitActivate(q)
        \/ RunAsync(q)
        \/ ExitPatch(q)
        \/ \E program \in AsyncEnds : AwaitEnds(q, program)

Spec == Init /\ [][Next]_vars

(* ------------------- the signature helpers of utils ------------------- *)

\* inspect.Parameter.kind, in the order in which a signature lists them.
POSITIONAL_OR_KEYWORD == "POSITIONAL_OR_KEYWORD"
VAR_POSITIONAL == "VAR_POSITIONAL"
KEYWORD_ONLY == "KEYWORD_ONLY"
VAR_KEYWORD == "VAR_KEYWORD"
ParameterKinds ==
    <<POSITIONAL_OR_KEYWORD, VAR_POSITIONAL, KEYWORD_ONLY, VAR_KEYWORD>>

KindRank(kind) == CHOOSE i \in DOMAIN ParameterKinds : ParameterKinds[i] = kind

\* The name of the parameter at each position.
ParamNames == <<"a", "b", "c", "d">>

\* inspect.signature(func).parameters: the parameters in order, each with its
\* name, its kind, and whether its default is not Parameter.empty.
Parameters(n) ==
    {p \in [1..n -> [kind : {ParameterKinds[i] : i \in DOMAIN ParameterKinds},
                     has_default : BOOLEAN]] :
        /\ \A i, j \in 1..n :
              i < j =>
                /\ KindRank(p[i].kind) <= KindRank(p[j].kind)
                /\ p[i].kind \in {VAR_POSITIONAL, VAR_KEYWORD}
                        => p[i].kind # p[j].kind
                /\ (/\ p[i].kind = POSITIONAL_OR_KEYWORD
                    /\ p[j].kind = POSITIONAL_OR_KEYWORD
                    /\ p[i].has_default) => p[j].has_default
        /\ \A i \in 1..n :
              p[i].kind \in {VAR_POSITIONAL, VAR_KEYWORD} => ~p[i].has_default}

\* The callables: every signature Python accepts, up to MaxParams parameters.
Funcs ==
    UNION {{[i \in 1..n |-> [name |-> ParamNames[i], kind |-> p[i].kind,
                             has_default |-> p[i].has_default]] :
                p \in Parameters(n)} : n \in 0..MaxParams}

\* The dictionaries passed as kwargs / argdict.
Keys == {"a", "b", "c", "z"}
Values == {"v1", "v2"}
Dicts == UNION {[ks -> Values] : ks \in SUBSET Keys}

Elements(seq) == {seq[i] : i \in DOMAIN seq}

Names(params) == [i \in DOMAIN params |-> params[i].name]

HasDefaultOrIsNotPlain(v) ==
    v.has_default \/ v.kind # POSITIONAL_OR_KEYWORD

\* utils.default_values_of(func)
default_values_of(func) == Names(SelectSeq(func, HasDefaultOrIsNotPlain))

\* utils.arguments_of(func)
arguments_of(func) == Names(func)

\* Mutant of used_kwargs: kwargs is returned as it is.
used_kwargs_Unfiltered(kwargs, func) == kwargs

\* utils.used_kwargs(kwargs, func)
used_kwargs(kwargs, func) ==
    LET possible_arguments == arguments_of(func)
    IN  [k \in {k \in DOMAIN kwargs : k \in Elements(possible_arguments)}
            |-> kwargs[k]]

\* utils.required_arguments(func)
required_arguments(func) ==
    LET defaults == default_values_of(func)
        args == arguments_of(func)
    IN  IF defaults # <<>>
        THEN SubSeq(args, 1, Len(args) - Len(defaults))
        ELSE args

\* utils.missing_arguments(func, argdict)
missing_arguments(func, argdict) ==
    Elements(required_arguments(func)) \ DOMAIN argdict

\* The arguments a helper is about to be called with.
UtilsInputs == {[fn |-> "none", func |-> f, kwargs |-> d] :
                    f \in Funcs, d \in Dicts}

InitUtils ==
    /\ should_skip_question = [q \in Questions |-> FALSE]
    /\ default = [q \in Questions |-> None]
    /\ run_calls = [q \in Questions |-> 0]
    /\ was_skipped = [q \in Questions |-> FALSE]
    /\ frame = [q \in Questions |-> IdleFrame]
    /\ patched = [q \in Questions |-> FALSE]
    /\ stdout = <<>>
    /\ ACTIVATED_ASYNC_MODE = FALSE
    /\ ptk3 \in BOOLEAN
    /\ use_asyncio_calls = 0
    /\ skip_if_call = NoSkipIfCall
    /\ application = [q \in Questions |-> q]
    /\ activate_calls = 0
    /\ utils_call \in UtilsInputs

\* A helper of utils is called and returns; nothing but its result is new.
UtilsReturns(fn, returned) ==
    /\ utils_call' = [fn |-> fn, func |-> utils_call.func,
                      kwargs |-> utils_call.kwargs, returned |-> returned]
    /\ UNCHANGED <<should_skip_question, default, run_calls, was_skipped,
                   frame, patched, stdout, ACTIVATED_ASYNC_MODE, ptk3,
                   use_asyncio_calls, skip_if_call, application,
                   activate_calls>>

UsedKwargs ==
    /\ utils_call.fn = "none"
    /\ UtilsReturns("used_kwargs",
                    used_kwargs(utils_call.kwargs, utils_call.func))

RequiredArguments ==
    /\ utils_call.fn = "none"
    /\ UtilsReturns("required_arguments",
                    required_arguments(utils_call.func))

MissingArguments ==
    /\ utils_call.fn = "none"
    /\ UtilsReturns("missing_arguments",
                    missing_arguments(utils_call.func, utils_call.kwargs))

NextUtils == UsedKwargs \/ RequiredArguments \/ MissingArguments

SpecUtils == InitUtils /\ [][NextUtils]_vars

(* --------------------- asynchronous asks that race -------------------- *)

\* Two Questions, each asked once through ask_async with its default policy,
\* with the steps of the two calls interleaved in every way.
RaceQuestions == {"q1", "q2"}

InitRace ==
    /\ should_skip_question = [q \in RaceQuestions |-> FALSE]
    /\ default = [q \in RaceQuestions |-> None]
    /\ run_calls = [q \in RaceQuestions |-> 0]
    /\ was_skipped = [q \in RaceQuestions |-> FALSE]
    /\ frame = [q \in RaceQuestions |-> IdleFrame]
    /\ patched = [q \in RaceQuestions |-> FALSE]
    /\ stdout = <<>>
    /\ ACTIVATED_ASYNC_MODE = FALSE
    /\ ptk3 \in BOOLEAN
    /\ use_asyncio_calls = 0
    /\ skip_if_call = NoSkipIfCall
    /\ application = [q \in RaceQuestions |-> q]
    /\ activate_calls = 0
    /\ utils_call = NoUtilsCall

\* skip_if on a Question that has not been asked yet.
RaceSkipIf(q, condition) == frame[q].pc = "idle" /\ SkipIf(q, condition, "X")

\* ask_async(patch_stdout=p) on a Question that has not been asked yet.
RaceAskAsync(q, p) ==
    /\ frame[q].pc = "idle"
    /\ AskAsync(q, p, DEFAULT_KBI_MESSAGE, FALSE, PyBool(FALSE))

NextRace ==
    \/ \E q \in RaceQuestions :
        \/ \E c \in BOOLEAN : RaceSkipIf(q, c)
        \/ \E p \in BOOLEAN : RaceAskAsync(q, p)
        \/ AwaitActivate(q)
        \/ RunAsync(q)
        \/ ExitPatch(q)
        \/ \E program \in AsyncEnds : AwaitEnds(q, program)
    \/ CallActivate

SpecRace == InitRace /\ [][NextRace]_vars

(* ------------------------- derived observations ----------------------- *)

\* The call on q has ended for its caller.
Done(q) == frame[q].pc = "done"

\* What has been written to sys.stdout since the call on q began.
CallOutput(q) == SubSeq(stdout, frame[q].stdout0 + 1, Len(stdout))

\* How often the application of q has been run since the call on q began.
RunsInCall(q) == run_calls[q] - frame[q].runs0

\* The number of occurrences of x in the sequence s.
Occurrences(x, s) == Cardinality({i \in 1..Len(s) : s[i] = x})

\* A step that starts a call on q (the calls are the only steps that change
\* the frame of a Question that has no call in progress).
CallStarts(q) == frame[q].pc \in {"idle", "done"} /\ frame'[q] # frame[q]

\* The call on q was interrupted: its application run raised KeyboardInterrupt.
Interrupted(q) == Done(q) /\ frame[q].program.kind = "KeyboardInterrupt"

\* exit_on_kbi asks for a process exit: True, or an int that is not a bool.
AsksExit(e) == e = PyBool(TRUE) \/ e.type = "int"

(* ------------------------------- claims ------------------------------- *)

\* C1: every call of ask, unsafe_ask, ask_async or unsafe_ask_async that is
\* made while the skip flag is true ends at once, returns exactly the stored
\* default, invokes run / run_async zero times and writes nothing, whatever
\* its arguments.
C1_SkipReturnsDefault ==
    [][\A q \in Questions :
        (CallStarts(q) /\ should_skip_question[q]) =>
            /\ frame'[q].pc = "done"
            /\ frame'[q].outcome = Return(default[q])
            /\ run_calls'[q] = run_calls[q]
            /\ stdout' = stdout
            /\ patched' = patched]_vars

\* C1 witness: a skipped ask_async has returned a stored default that is
\* not None, after the application had been run by an earlier call.
C1_Witness ==
    \E q \in Questions :
        /\ Done(q) /\ frame[q].skipped /\ frame[q].method = "ask_async"
        /\ frame[q].outcome = Return("X")
        /\ frame[q].exit_on_kbi = PyInt(7) /\ frame[q].raise_on_kbi
        /\ run_calls[q] = 1 /\ RunsInCall(q) = 0

\* C2 as stated: once the skip flag has been true, no later step runs the
\* application.
C2_OnceSkippedNeverRuns ==
    [][\A q \in Questions : was_skipped[q] => run_calls'[q] = run_calls[q]]_vars

\* C2 amended: while the skip flag is true, no step runs the application
\* and no call is left in progress.
C2_WhileSkippedNeverRuns ==
    [][\A q \in Questions :
        should_skip_question[q] =>
            /\ run_calls'[q] = run_calls[q]
            /\ frame'[q].pc \in {"idle", "done"}]_vars

\* C2 witness: two calls have been skipped in a row on a Question whose
\* application was run before the flag was set.
C2_Witness ==
    \E q \in Questions :
        /\ should_skip_question[q] /\ was_skipped[q]
        /\ Done(q) /\ frame[q].skipped /\ frame[q].method = "unsafe_ask"
        /\ frame[q].runs0 = 1 /\ run_calls[q] = 1

\* C3: a call of ask or unsafe_ask made with skip false whose run ends with
\* a result has run the application exactly once and returns that result;
\* this holds for a repeated call as for the first.
C3_AskReturnsProgramResult ==
    \A q \in Questions :
        (/\ Done(q) /\ ~frame[q].skipped
         /\ frame[q].method \in {"ask", "unsafe_ask"}
         /\ frame[q].program.kind = "result") =>
            /\ frame[q].outcome = Return(frame[q].program.value)
            /\ RunsInCall(q) = 1
            /\ CallOutput(q) = <<>>

\* C3 witness: the second ask of a Question has run the application a second
\* time and returned its result.
C3_Witness ==
    \E q \in Questions :
        /\ Done(q) /\ ~frame[q].skipped /\ frame[q].method = "ask"
        /\ frame[q].program = ProgramResult("A")
        /\ frame[q].runs0 = 1 /\ run_calls[q] = 2

\* C4: after a skip_if call the skip flag and the stored default of its
\* Question are the arguments of that call (whatever earlier calls set) and
\* the call has returned the Question itself; and a call of ask made with
\* the flag false, after it had been true, runs the application and returns
\* the application's result.
C4_LastSkipIfWins ==
    /\ [](\A q \in Questions :
            skip_if_call.self = q =>
                /\ should_skip_question[q] = skip_if_call.condition
                /\ default[q] = skip_if_call.default
                /\ skip_if_call.returned = q)
    /\ [][\A q \in Questions :
            /\ (/\ CallStarts(q) /\ frame'[q].method = "ask"
                /\ was_skipped[q] /\ ~skip_if_call.condition) =>
                    /\ frame'[q].pc = "running"
                    /\ run_calls'[q] = run_calls[q] + 1
            /\ (/\ frame[q].pc = "running" /\ Done(q)'
                /\ frame'[q].program.kind = "result") =>
                    frame'[q].outcome = Return(frame'[q].program.value)]_vars

\* C4 witness: after skip_if(True, "X") and then skip_if(False, "Y"), ask has
\* run the application and returned its result "A".
C4_Witness ==
    \E q \in Questions :
        /\ skip_if_call =
             [self |-> q, condition |-> FALSE, default |-> "Y", returned |-> q]
        /\ was_skipped[q] /\ ~should_skip_question[q] /\ default[q] = "Y"
        /\ Done(q) /\ frame[q].method = "ask" /\ frame[q].runs0 = 0
        /\ run_calls[q] = 1 /\ frame[q].outcome = Return("A")

\* C5: an interrupt caught by ask or ask_async ends the call by the
\* precedence exit_on_kbi is True -> exit(0); exit_on_kbi is an int that is
\* not a bool -> exit with it; raise_on_kbi -> KeyboardInterrupt raised; else
\* None returned.  When exit_on_kbi asks for an exit or raise_on_kbi is true
\* the call does not return and writes nothing.
C5_InterruptPrecedence ==
    \A q \in Questions :
        (Interrupted(q) /\ frame[q].method \in SafeMethods) =>
            LET f == frame[q]
                e == f.exit_on_kbi
            IN  /\ f.outcome =
                     IF e = PyBool(TRUE) THEN Exit(0)
                     ELSE IF e.type = "int" THEN Exit(e.i)
                     ELSE IF f.raise_on_kbi THEN Raise("KeyboardInterrupt")
                     ELSE Return(None)
                /\ (AsksExit(e) \/ f.raise_on_kbi) =>
                        /\ f.outcome.kind # "return"
                        /\ CallOutput(q) = <<>>

\* C5 witness: ask_async was interrupted with exit_on_kbi=0, raise_on_kbi
\* true and a message, and the process has exited with status 0.
C5_Witness ==
    \E q \in Questions :
        /\ Interrupted(q) /\ frame[q].method = "ask_async"
        /\ frame[q].exit_on_kbi = PyInt(0) /\ frame[q].raise_on_kbi
        /\ frame[q].kbi_msg = DEFAULT_KBI_MESSAGE
        /\ frame[q].outcome = Exit(0)

\* C6 as stated: an interrupted ask with raise_on_kbi true raises
\* KeyboardInterrupt whatever the other arguments are.
C6_RaiseWhateverElse ==
    \A q \in Questions :
        (Interrupted(q) /\ frame[q].method = "ask" /\ frame[q].raise_on_kbi)
            => frame[q].outcome = Raise("KeyboardInterrupt")

\* C6 amended: an interrupted ask with raise_on_kbi true raises
\* KeyboardInterrupt unless exit_on_kbi asks for an exit (is True or an int
\* that is not a bool), and then the process exits instead.
C6_RaiseUnlessExit ==
    \A q \in Questions :
        (Interrupted(q) /\ frame[q].method = "ask" /\ frame[q].raise_on_kbi) =>
            /\ ~AsksExit(frame[q].exit_on_kbi) =>
                    frame[q].outcome = Raise("KeyboardInterrupt")
            /\ AsksExit(frame[q].exit_on_kbi) => frame[q].outcome.kind = "exit"

\* C6 witness: an interrupted ask with raise_on_kbi true, exit_on_kbi None,
\* no message and patch_stdout has raised KeyboardInterrupt.
C6_Witness ==
    \E q \in Questions :
        /\ Interrupted(q) /\ frame[q].method = "ask" /\ frame[q].raise_on_kbi
        /\ frame[q].exit_on_kbi = PyNone /\ frame[q].kbi_msg = None
        /\ frame[q].patch_stdout
        /\ frame[q].outcome = Raise("KeyboardInterrupt")

\* C7: an interrupted ask with raise_on_kbi false and exit_on_kbi False
\* returns None; it has written a newline, the message and two newlines, once,
\* if the message is neither None nor empty, and nothing otherwise.
C7_SwallowedInterrupt ==
    \A q \in Questions :
        (/\ Interrupted(q) /\ frame[q].method = "ask"
         /\ ~frame[q].raise_on_kbi /\ frame[q].exit_on_kbi = PyBool(FALSE)) =>
            /\ frame[q].outcome = Return(None)
            /\ CallOutput(q) =
                 IF frame[q].kbi_msg \in {None, ""} THEN <<>>
                 ELSE <<NL, frame[q].kbi_msg, NL, NL>>

\* C7 witness: an ask interrupted under the default policy has returned None
\* and the default message stands on stdout between blank lines.
C7_Witness ==
    \E q \in Questions :
        /\ Interrupted(q) /\ frame[q].method = "ask"
        /\ ~frame[q].raise_on_kbi /\ frame[q].exit_on_kbi = PyBool(FALSE)
        /\ frame[q].kbi_msg = DEFAULT_KBI_MESSAGE
        /\ frame[q].outcome = Return(None)
        /\ stdout = <<NL, DEFAULT_KBI_MESSAGE, NL, NL>>

\* The interrupt of the call on q was handled under the default policy
\* (raise_on_kbi false, exit_on_kbi False) with a message configured.
DefaultPolicy(q) ==
    /\ frame[q].method = "ask"
    /\ ~frame[q].raise_on_kbi /\ frame[q].exit_on_kbi = PyBool(FALSE)
    /\ Truthy(frame[q].kbi_msg)

\* C8 as stated: when an ask interrupted under the default policy has
\* returned, the message has been written twice.
C8_MessageWrittenTwice ==
    \A q \in Questions :
        (Interrupted(q) /\ DefaultPolicy(q)) =>
            Occurrences(frame[q].kbi_msg, CallOutput(q)) = 2

\* C8 amended: an ask under the default policy has written nothing while the
\* application runs, and when it has returned None after an interrupt the
\* message has been written exactly once, with newlines around it.
C8_MessageWrittenOnceThenReturn ==
    \A q \in Questions :
        DefaultPolicy(q) =>
            /\ frame[q].pc = "running" => CallOutput(q) = <<>>
            /\ Interrupted(q) =>
                /\ Occurrences(frame[q].kbi_msg, CallOutput(q)) = 1
                /\ Occurrences(NL, CallOutput(q)) = 3
                /\ Len(CallOutput(q)) = 4
                /\ CallOutput(q)[2] = frame[q].kbi_msg
                /\ frame[q].outcome = Return(None)

\* C8 witness: the second ask of a Question was interrupted under the
\* default policy after the first had been, so stdout holds the message of
\* each.
C8_Witness ==
    \E q \in Questions :
        /\ Interrupted(q) /\ DefaultPolicy(q)
        /\ frame[q].stdout0 = 4 /\ Len(stdout) = 8
        /\ frame[q].outcome = Return(None)

\* C9 as stated: a cancellation that ends the await of ask_async is handled
\* as a user interrupt, by the policy handle_kbi applies.
C9_CancelHandledAsInterrupt ==
    \A q \in Questions :
        (/\ Done(q) /\ frame[q].method = "ask_async"
         /\ frame[q].program.kind = "CancelledError") =>
            LET f == frame[q]
                e == f.exit_on_kbi
            IN  f.outcome =
                     IF e = PyBool(TRUE) THEN Exit(0)
                     ELSE IF e.type = "int" THEN Exit(e.i)
                     ELSE IF f.raise_on_kbi THEN Raise("KeyboardInterrupt")
                     ELSE Return(None)

\* C9 amended: a cancellation that ends the await of ask_async is not handled
\* as a user interrupt: the CancelledError is raised to the caller of
\* ask_async, no exit is requested and nothing is written, whatever
\* exit_on_kbi, raise_on_kbi and kbi_msg are; a KeyboardInterrupt that ends
\* the await is handled by the policy of the synchronous ask.
C9_CancelPropagates ==
    \A q \in Questions :
        (Done(q) /\ frame[q].method = "ask_async") =>
            /\ frame[q].program.kind = "CancelledError" =>
                /\ frame[q].outcome = Raise("CancelledError")
                /\ CallOutput(q) = <<>>
            /\ frame[q].program.kind = "KeyboardInterrupt" =>
                /\ frame[q].outcome.kind = "exit" <=> AsksExit(frame[q].exit_on_kbi)
                /\ frame[q].outcome.kind = "raise" =>
                        frame[q].outcome.value = "KeyboardInterrupt"

\* C9 witness: ask_async with exit_on_kbi=True and a message was cancelled
\* while it awaited the application, and CancelledError reached its caller.
C9_Witness ==
    \E q \in Questions :
        /\ Done(q) /\ frame[q].method = "ask_async"
        /\ frame[q].program.kind = "CancelledError"
        /\ frame[q].exit_on_kbi = PyBool(TRUE)
        /\ frame[q].kbi_msg = DEFAULT_KBI_MESSAGE
        /\ frame[q].outcome = Raise("CancelledError")

\* C10: an error of the application that is no KeyboardInterrupt is raised
\* unchanged to the caller of ask or ask_async: the call does not return, no
\* exit is requested and nothing is written, whatever the policy arguments.
C10_OtherErrorsPropagate ==
    \A q \in Questions :
        (/\ Done(q) /\ frame[q].method \in SafeMethods
         /\ frame[q].program.kind = "Error") =>
            /\ frame[q].outcome = Raise("Error")
            /\ CallOutput(q) = <<>>

\* C10 witness: ask with exit_on_kbi=7, raise_on_kbi false and a message
\* has raised the application's error.
C10_Witness ==
    \E q \in Questions :
        /\ Done(q) /\ frame[q].method = "ask"
        /\ frame[q].program.kind = "Error"
        /\ frame[q].exit_on_kbi = PyInt(7) /\ ~frame[q].raise_on_kbi
        /\ frame[q].kbi_msg = DEFAULT_KBI_MESSAGE
        /\ frame[q].outcome = Raise("Error")


\* C11: a KeyboardInterrupt raised by the run of unsafe_ask or
\* unsafe_ask_async is raised to their caller, with nothing written and no
\* exit requested; the same run through ask or ask_async with default
\* arguments returns None.
C11_UnsafeNeverIntercepts ==
    \A q \in DOMAIN frame :
        Interrupted(q) =>
            /\ frame[q].method \in {"unsafe_ask", "unsafe_ask_async"} =>
                /\ frame[q].outcome = Raise("KeyboardInterrupt")
                /\ CallOutput(q) = <<>>
            /\ (/\ frame[q].method \in {"ask", "ask_async"}
                /\ frame[q].kbi_msg = DEFAULT_KBI_MESSAGE
                /\ ~frame[q].raise_on_kbi
                /\ frame[q].exit_on_kbi = PyBool(FALSE)) =>
                    frame[q].outcome = Return(None)

\* C11 witness: unsafe_ask_async with patch_stdout was interrupted, after an
\* interrupted ask with default arguments had returned None and written its
\* message, and the KeyboardInterrupt has reached the caller.
C11_Witness ==
    \E q \in DOMAIN frame :
        /\ Interrupted(q) /\ frame[q].method = "unsafe_ask_async"
        /\ frame[q].patch_stdout
        /\ frame[q].outcome = Raise("KeyboardInterrupt")
        /\ stdout = <<NL, DEFAULT_KBI_MESSAGE, NL, NL>> /\ frame[q].stdout0 = 4


\* The call on q is an asynchronous one that has called run_async().
AsyncRunStarted(q) ==
    /\ frame[q].method \in {"ask_async", "unsafe_ask_async"}
    /\ \/ frame[q].pc \in {"exit_patch", "awaiting"}
       \/ Done(q) /\ ~frame[q].skipped

\* C12: ACTIVATED_ASYNC_MODE is false at the start and no step changes it
\* from true to false; a call enters the activation step only in a state
\* where the flag is false; and the flag is true whenever an asynchronous
\* call that was not skipped is about to call, or has called, run_async().
C12_FlagIsLatch ==
    /\ ~ACTIVATED_ASYNC_MODE
    /\ [][/\ ACTIVATED_ASYNC_MODE => ACTIVATED_ASYNC_MODE'
          /\ \A q \in DOMAIN frame :
                (frame[q].pc # "activate" /\ frame'[q].pc = "activate")
                    => ~ACTIVATED_ASYNC_MODE]_vars
    /\ [](\A q \in DOMAIN frame :
            (frame[q].pc = "run_async" \/ AsyncRunStarted(q))
                => ACTIVATED_ASYNC_MODE)

\* C12 witness: a second asynchronous call awaits the application with the
\* flag true and the activation step run once, by the first call.
C12_Witness ==
    \E q \in DOMAIN frame :
        /\ frame[q].method = "ask_async" /\ frame[q].pc = "awaiting"
        /\ frame[q].runs0 = 1 /\ run_calls[q] = 2
        /\ ACTIVATED_ASYNC_MODE /\ activate_calls = 1


(* ------------------------------- C13 ----------------------------------- *)

\* C13 as stated: once activate_prompt_toolkit_async_mode() has been called
\* twice the flag is true and use_asyncio_event_loop() has not been performed
\* a second time.  The function does not test the flag, so this fails under
\* prompt_toolkit 2.
C13_SecondActivationNoSideEffect ==
    activate_calls >= 2 =>
        /\ ACTIVATED_ASYNC_MODE
        /\ use_asyncio_calls <= 1

\* C13, amended: after every call of activate_prompt_toolkit_async_mode() the
\* flag is true, whatever the number of calls; use_asyncio_event_loop() is
\* performed once per call under prompt_toolkit 2 and never under
\* prompt_toolkit 3.
C13_ActivationRepeatsSideEffect ==
    /\ activate_calls >= 1 => ACTIVATED_ASYNC_MODE
    /\ use_asyncio_calls = IF ptk3 THEN 0 ELSE activate_calls

\* The function has been called twice by itself, no Question asked, under
\* prompt_toolkit 2: use_asyncio_event_loop() was performed twice.
C13_Witness ==
    /\ utils_call = [fn |-> "activate_prompt_toolkit_async_mode"]
    /\ \A q \in DOMAIN frame : frame[q].pc = "idle"
    /\ ~ptk3
    /\ activate_calls = 2
    /\ use_asyncio_calls = 2
    /\ ACTIVATED_ASYNC_MODE

(* ------------------------------- C19 ----------------------------------- *)

\* C19: when asynchronous asks of different Questions start while the flag
\* is false, in every interleaving: each ask runs the activation at most
\* once (so the activation runs at most once per ask), the flag is true once
\* an activation has completed, it never goes back to false, and no ask
\* reaches run_async() while the flag is false.
C19_RaceOnlyRepeatsActivation ==
    /\ [](/\ activate_calls >= 1 => ACTIVATED_ASYNC_MODE
          /\ utils_call = NoUtilsCall =>
                activate_calls <= Cardinality({q \in DOMAIN frame :
                                                 frame[q].pc # "idle"})
          /\ \A q \in DOMAIN frame :
                (frame[q].pc = "run_async" \/ AsyncRunStarted(q))
                    => ACTIVATED_ASYNC_MODE)
    /\ [][/\ ACTIVATED_ASYNC_MODE => ACTIVATED_ASYNC_MODE'
          /\ run_calls' # run_calls => ACTIVATED_ASYNC_MODE]_vars

\* Both asks read the flag as false, both ran the activation (it was never
\* called by itself), and both programs are running.
C19_Witness ==
    /\ utils_call = NoUtilsCall
    /\ activate_calls = 2
    /\ Cardinality(DOMAIN frame) = 2
    /\ \A q \in DOMAIN frame : frame[q].pc = "awaiting" /\ run_calls[q] = 1
    /\ ACTIVATED_ASYNC_MODE


(* ------------------------------- C14 ----------------------------------- *)

\* The call on q is one of ask and unsafe_ask.
SyncCall(q) == frame[q].method \in {"ask", "unsafe_ask"}

\* C14: in ask and unsafe_ask with patch_stdout true the stdout patch is
\* held while application.run() runs and is not held once the call has
\* returned or raised; it is taken only by the step that starts the run of
\* a call that is not skipped and that has patch_stdout true, so with
\* patch_stdout false or with the skip flag set it is never held.
C14_SyncPatchScopesRun ==
    /\ [](\A q \in DOMAIN frame :
            SyncCall(q) =>
                /\ frame[q].pc = "running" =>
                        patched[q] = frame[q].patch_stdout
                /\ frame[q].pc \in {"idle", "done"} => ~patched[q])
    /\ [][\A q \in DOMAIN frame :
            (SyncCall(q)' /\ ~patched[q] /\ patched'[q]) =>
                /\ CallStarts(q)
                /\ frame'[q].pc = "running"
                /\ frame'[q].patch_stdout
                /\ ~should_skip_question[q]
                /\ run_calls'[q] = run_calls[q] + 1]_vars

\* C14 witness: ask with patch_stdout true has raised the application's
\* error to its caller and the patch is not held.
C14_Witness ==
    \E q \in DOMAIN frame :
        /\ Done(q) /\ frame[q].method = "ask" /\ frame[q].patch_stdout
        /\ ~frame[q].skipped /\ run_calls[q] = frame[q].runs0 + 1
        /\ frame[q].program.kind = "Error"
        /\ frame[q].outcome = Raise("Error")
        /\ ~patched[q]

(* ------------------------------- C15 ----------------------------------- *)

\* C15 as stated: in ask_async and unsafe_ask_async with patch_stdout true
\* the stdout patch is held while the application is awaited, until it has
\* finished.  The `with patch_stdout()` block holds only the call of
\* run_async() and is left before the await.
C15_AsyncPatchHeldWhileAwaiting ==
    \A q \in DOMAIN frame :
        (/\ frame[q].method \in {"ask_async", "unsafe_ask_async"}
         /\ frame[q].pc = "awaiting"
         /\ frame[q].patch_stdout) => patched[q]


(* ------------------------------- C16 ----------------------------------- *)

\* What ask does with the arguments of the call on q when its application
\* ends with program: the outcome for the caller and what is written.
AsAsk(q, program) == Finish([frame[q] EXCEPT !.method = "ask"], program)

\* C16: ask_async ends as ask does.  With the skip flag set it returns the
\* default, runs nothing and writes nothing; otherwise it runs the application
\* once, and when that ends with a result, a KeyboardInterrupt or another
\* error, the outcome for the caller and the output written are those of ask
\* with the same kbi_msg, raise_on_kbi and exit_on_kbi.
C16_AskAsyncAsAsk ==
    /\ [](\A q \in DOMAIN frame :
            (/\ Done(q) /\ frame[q].method = "ask_async"
             /\ ~frame[q].skipped /\ frame[q].program \in SyncEnds) =>
                /\ frame[q].outcome = AsAsk(q, frame[q].program).outcome
                /\ CallOutput(q) = AsAsk(q, frame[q].program).printed
                /\ RunsInCall(q) = 1)
    /\ [][\A q \in DOMAIN frame :
            (/\ CallStarts(q) /\ frame'[q].method \in {"ask", "ask_async"}
             /\ should_skip_question[q]) =>
                /\ Done(q)'
                /\ frame'[q].outcome = Return(default[q])
                /\ stdout' = stdout
                /\ run_calls' = run_calls]_vars

\* C16 witness: ask_async with exit_on_kbi=7 and a message was interrupted
\* and has exited with status 7, as ask does, with nothing written.
C16_Witness ==
    \E q \in DOMAIN frame :
        /\ Interrupted(q) /\ frame[q].method = "ask_async"
        /\ frame[q].exit_on_kbi = PyInt(7) /\ frame[q].raise_on_kbi
        /\ frame[q].kbi_msg = DEFAULT_KBI_MESSAGE
        /\ frame[q].outcome = Exit(7)
        /\ CallOutput(q) = <<>>


(* ------------------------------- C20 ----------------------------------- *)

\* C20: a new Question has should_skip_question false and default None.  No
\* step of ask, unsafe_ask, ask_async or unsafe_ask_async changes
\* should_skip_question, default or application of any Question, and
\* application is never changed at all.  No step of ask or unsafe_ask, and no
\* step of an asynchronous call that is skipped, changes ACTIVATED_ASYNC_MODE
\* or runs the activation.
C20_Frame ==
    /\ \A q \in DOMAIN frame : ~should_skip_question[q] /\ default[q] = None
    /\ [][/\ frame' # frame =>
                UNCHANGED <<should_skip_question, default, application>>
          /\ application' = application
          /\ \A q \in DOMAIN frame :
                (/\ frame'[q] # frame[q]
                 /\ SyncCall(q)' \/ frame'[q].skipped) =>
                    UNCHANGED <<ACTIVATED_ASYNC_MODE, activate_calls,
                                use_asyncio_calls>>]_vars

\* C20 witness: after a run of ask, ask_async on the Question with the skip
\* flag set and default "X" has returned "X"; the skip flag and the default
\* are as skip_if left them and the activation has never run.
C20_Witness ==
    \E q \in DOMAIN frame :
        /\ Done(q) /\ frame[q].method = "ask_async" /\ frame[q].skipped
        /\ frame[q].outcome = Return("X")
        /\ should_skip_question[q] /\ default[q] = "X"
        /\ application[q] = q
        /\ run_calls[q] = 1
        /\ ~ACTIVATED_ASYNC_MODE /\ activate_calls = 0


(* ------------------------------- C17 ----------------------------------- *)

\* C17: used_kwargs(kwargs, func) returns the restriction of kwargs to the
\* parameter names of func: its keys are the keys of kwargs that are
\* parameter names, each with the value it has in kwargs; a key that is not
\* a parameter name is left out and nothing is raised; and the call leaves
\* kwargs (and func) as they were.
C17_UsedKwargsRestricts ==
    /\ [](utils_call.fn = "used_kwargs" =>
            LET r == utils_call.returned
                o == utils_call.kwargs
                f == utils_call.func
            IN  /\ DOMAIN r = {k \in DOMAIN o :
                                  \E i \in DOMAIN f : f[i].name = k}
                /\ \A k \in DOMAIN r : r[k] = o[k])
    /\ [][utils_call'.fn = "used_kwargs" =>
            /\ utils_call'.kwargs = utils_call.kwargs
            /\ utils_call'.func = utils_call.func]_vars

\* C17 witness: used_kwargs({"a": v1, "b": v2, "z": v1}, f) with f(a, b) has
\* returned {"a": v1, "b": v2}.
C17_Witness ==
    /\ utils_call.fn = "used_kwargs"
    /\ Names(utils_call.func) = <<"a", "b">>
    /\ utils_call.kwargs = [k \in {"a", "b", "z"} |->
                                IF k = "b" THEN "v2" ELSE "v1"]
    /\ utils_call.returned = [k \in {"a", "b"} |->
                                IF k = "b" THEN "v2" ELSE "v1"]

(* ------------------------------- C18 ----------------------------------- *)

\* The parameters of func that a call has to give a value to: those that
\* have no default and are not *args or **kwargs.
WithoutDefault(func) ==
    {func[i].name : i \in {i \in DOMAIN func :
        /\ ~func[i].has_default
        /\ func[i].kind \notin {VAR_POSITIONAL, VAR_KEYWORD}}}

\* C18 as stated: for every signature, required_arguments(func) is the
\* parameters of func that have no default, and missing_arguments(func,
\* argdict) is those of them that are not keys of argdict.  A keyword-only
\* parameter without a default is left out by required_arguments.
C18_RequiredAreThoseWithoutDefault ==
    /\ utils_call.fn = "required_arguments" =>
            Elements(utils_call.returned) = WithoutDefault(utils_call.func)
    /\ utils_call.fn = "missing_arguments" =>
            utils_call.returned =
                WithoutDefault(utils_call.func) \ DOMAIN utils_call.kwargs

=============================================================================
